---- MODULE Spec2Model ----
(***************************************************************************)
(* Model of ai_suggest.py (SciPAn): search_arxiv, summarize_text,          *)
(* generate_digest and main.                                               *)
(*                                                                         *)
(* A Python str is a sequence of one-character strings.  Values produced   *)
(* by the HTTP servers (the feed, the completion response) are inputs of   *)
(* the actions, drawn from small sets.                                     *)
(***************************************************************************)
EXTENDS Integers, Sequences, FiniteSets, TLC

VARIABLES
    pc,         \* main: "start", "fetch", "digest", "loop", "write", "done", "raised"
    clock,      \* the current day, counted from the day the run starts
    key,        \* OPENROUTER_KEY is set (main)
    papers,     \* papers in main
    idx,        \* i of the loop of generate_digest
    today,      \* date read by generate_digest
    lines,      \* lines of generate_digest
    digest,     \* digest_md
    filename,   \* filename of main
    file,       \* contents of the file at filename
    writes,     \* number of times the file was opened, written and closed
    ops,        \* external operations performed so far, in order
    fPc,        \* search_arxiv: "call", then "ret" or "raised"
    fCap,       \* argument max_results
    fOutcome,   \* outcome of requests.get / raise_for_status and the feed
    fPapers,    \* returned list
    sPc,        \* summarize_text: "call" before the call, "ret" after it
    sKey,       \* OPENROUTER_KEY is set
    sText,      \* argument text
    sOutcome,   \* outcome of requests.post / resp.json() (NoRequest when none)
    sPath,      \* which return statement ran: "nokey", "ok", "except"
    sResult     \* returned string

sumVars == <<sPc, sKey, sText, sOutcome, sPath, sResult>>

fetchVars == <<fPc, fCap, fOutcome, fPapers>>

mainVars ==
    <<pc, clock, key, papers, idx, today, lines, digest, filename, file, writes, ops>>

vars ==
    <<pc, clock, key, papers, idx, today, lines, digest, filename, file, writes, ops,
      fPc, fCap, fOutcome, fPapers, sPc, sKey, sText, sOutcome, sPath, sResult>>

----------------------------------------------------------------------------
(* Bounds *)

MaxLen == 3          \* longest exhaustively enumerated text
MaxFeed == 3         \* most entries in a feed
MaxCap == 2          \* largest max_results tried on search_arxiv
MaxDay == 1          \* midnights that may pass during a run

----------------------------------------------------------------------------
(* Python str helpers *)

Min(a, b) == IF a < b THEN a ELSE b

\* characters matched by the class [.!?] of the split pattern
Punct == {".", "!", "?"}

\* characters removed by str.strip()
IsSpace(c) == c = " "

RECURSIVE LStrip(_)
LStrip(s) == IF s # <<>> /\ IsSpace(Head(s)) THEN LStrip(Tail(s)) ELSE s

RECURSIVE RStrip(_)
RStrip(s) ==
    IF s # <<>> /\ IsSpace(s[Len(s)]) THEN RStrip(SubSeq(s, 1, Len(s) - 1)) ELSE s

strip(s) == RStrip(LStrip(s))

RECURSIVE join(_, _)
join(sep, parts) ==
    IF parts = <<>> THEN <<>>
    ELSE IF Len(parts) = 1 THEN parts[1]
    ELSE parts[1] \o sep \o join(sep, Tail(parts))

\* parts[:n]
Take(parts, n) == SubSeq(parts, 1, Min(n, Len(parts)))

----------------------------------------------------------------------------
(* re.split(r"(?<=[.!?])\\s+", text): in a raw string the pattern is a      *)
(* lookbehind for [.!?], a literal backslash, then one or more letters s.   *)

RECURSIVE RunOfS(_, _)
RunOfS(s, j) == IF j <= Len(s) /\ s[j] = "s" THEN 1 + RunOfS(s, j + 1) ELSE 0

\* length of the match of the pattern starting at position i, 0 if none
MatchLen(s, i) ==
    IF i > 1 /\ i + 1 <= Len(s) /\ s[i - 1] \in Punct /\ s[i] = "\\" /\ s[i + 1] = "s"
    THEN 1 + RunOfS(s, i + 1)
    ELSE 0

RECURSIVE SplitFrom(_, _, _)
SplitFrom(s, i, start) ==
    IF i > Len(s) THEN <<SubSeq(s, start, Len(s))>>
    ELSE LET m == MatchLen(s, i) IN
         IF m > 0 THEN <<SubSeq(s, start, i - 1)>> \o SplitFrom(s, i + m, i + m)
         ELSE SplitFrom(s, i + 1, start)

re_split(s) == SplitFrom(s, 1, 1)

----------------------------------------------------------------------------
(* JSON values of the completion response.  A field value is absent, null,  *)
(* a string, or a non-empty value that is not a string (a list of content   *)
(* parts, a number).                                                        *)

Absent == [t |-> "absent", v |-> <<>>]
Null == [t |-> "null", v |-> <<>>]
NonStr == [t |-> "list", v |-> <<>>]
Str(s) == [t |-> "str", v |-> s]

\* Python truth value of a field value
Truthy(j) == j.t = "list" \/ (j.t = "str" /\ j.v # <<>>)

ContentStrings == {<<>>, <<" ">>, <<"X">>, <<" ", "X", " ">>}

FieldVals == {Absent, Null, NonStr} \cup {Str(s) : s \in ContentStrings}

NoChoice ==
    [t |-> "null", v |-> <<>>, message |-> "absent", content |-> Absent, text |-> Absent]

\* choices[0]: an object, a bare string, or null
Choices ==
    {[NoChoice EXCEPT !.t = "str", !.v = s] : s \in ContentStrings}
    \cup {NoChoice}
    \cup {[NoChoice EXCEPT !.t = "dict", !.message = m, !.text = tx] :
            m \in {"absent", "null", "str"}, tx \in FieldVals}
    \cup {[NoChoice EXCEPT !.t = "dict", !.message = "dict", !.content = c, !.text = tx] :
            c \in FieldVals, tx \in FieldVals}

NoRequest == [kind |-> "none", data |-> "dict", choices |-> "absent", choice |-> NoChoice]

\* outcomes of requests.post, raise_for_status and resp.json()
Outcomes ==
    {[NoRequest EXCEPT !.kind = k] : k \in {"neterr", "timeout", "status", "badjson"}}
    \cup {[NoRequest EXCEPT !.kind = "json", !.data = "nondict"]}
    \cup {[NoRequest EXCEPT !.kind = "json", !.choices = c] : c \in {"absent", "null", "empty"}}
    \cup {[NoRequest EXCEPT !.kind = "json", !.choices = "list", !.choice = ch] : ch \in Choices}

----------------------------------------------------------------------------
(* summarize_text *)

\* " ".join(re.split(..., text)[:3]).strip() in the branch without a key
fallback_no_key(text) == strip(join(<<" ">>, Take(re_split(text), 3)))

\* the except branch with the slice [:2]
fallback_except_short(text) == strip(join(<<" ">>, Take(re_split(text), 2)))

\* the same expression in the except branch
fallback_except(text) == strip(join(<<" ">>, Take(re_split(text), 3)))

\* requests.post, resp.raise_for_status() or resp.json() raises
RequestRaises(out) == out.kind \in {"neterr", "timeout", "status", "badjson"}

\* data.get("choices", [])[0] raises
FirstChoiceRaises(out) ==
    out.data = "nondict" \/ out.choices \in {"absent", "null", "empty"}

\* str(choice)
PyStr(choice) ==
    IF choice.t = "str" THEN choice.v
    ELSE IF choice.t = "null" THEN <<"N", "o", "n", "e">>
    ELSE <<"{", choice.message, choice.content.t, choice.text.t, "}">>

\* msg = choice.get("message") or {};  msg.get("content") raises when msg
\* is a non-empty value that is not an object
MsgGetRaises(choice) == choice.t = "dict" /\ choice.message = "str"

\* the two fields tried in the other order
select_content_text_first(choice) ==
    IF choice.t # "dict" THEN Null
    ELSE LET msgContent == IF choice.message = "dict" THEN choice.content ELSE Absent
         IN IF Truthy(choice.text) THEN choice.text ELSE msgContent

\* content = msg.get("content") or choice.get("text"), None for a choice
\* that is not an object
select_content(choice) ==
    IF choice.t # "dict" THEN Null
    ELSE LET msgContent == IF choice.message = "dict" THEN choice.content ELSE Absent
         IN IF Truthy(msgContent) THEN msgContent ELSE choice.text

\* if not content: content = str(choice)
final_content(choice) ==
    LET content == select_content(choice)
    IN IF Truthy(content) THEN content ELSE Str(PyStr(choice))

\* some statement of the try block after the request raises
ParseRaises(out) ==
    \/ FirstChoiceRaises(out)
    \/ MsgGetRaises(out.choice)
    \/ final_content(out.choice).t # "str"

\* the return statement that runs and the value it returns
summarize_text(hasKey, text, out) ==
    IF ~hasKey THEN [path |-> "nokey", result |-> fallback_no_key(text)]
    ELSE IF RequestRaises(out) \/ ParseRaises(out)
         THEN [path |-> "except", result |-> fallback_except(text)]
         ELSE [path |-> "ok", result |-> strip(final_content(out.choice).v)]

----------------------------------------------------------------------------
(* search_arxiv *)

\* html.unescape: an entity is one element of the sequence
UnescapeChar(c) ==
    IF c = "&lt;" THEN "<"
    ELSE IF c = "&gt;" THEN ">"
    ELSE IF c = "&amp;" THEN "&"
    ELSE c

unescape(s) == [k \in 1..Len(s) |-> UnescapeChar(s[k])]

\* position of the first ">" at or after j, 0 if none
RECURSIVE FindGt(_, _)
FindGt(s, j) ==
    IF j > Len(s) THEN 0
    ELSE IF s[j] = ">" THEN j
    ELSE FindGt(s, j + 1)

\* re.sub(r"<[^>]+>", "", s)
RECURSIVE SubFrom(_, _)
SubFrom(s, i) ==
    IF i > Len(s) THEN <<>>
    ELSE LET g == FindGt(s, i + 1) IN
         IF s[i] = "<" /\ g >= i + 2 THEN SubFrom(s, g + 1)
         ELSE <<s[i]>> \o SubFrom(s, i + 1)

sub_tags(s) == SubFrom(s, 1)

\* getattr(entry, name, "")
getattr_default(field) == IF field.t = "str" THEN field.v ELSE <<>>

\* getattr(entry, "authors", [])
authors_of(entry) == IF entry.authors.present THEN entry.authors.items ELSE <<>>

\* a.name raises AttributeError for an author item without a name
AuthorNameRaises(entry) ==
    \E k \in 1..Len(authors_of(entry)) : ~authors_of(entry)[k].hasName

\* ", ".join(a.name for a in ...)
authors_joined(entry) ==
    join(<<",", " ">>, [k \in 1..Len(authors_of(entry)) |-> authors_of(entry)[k].name])

\* the dict appended for one entry
paper_of(entry) ==
    [title |-> strip(getattr_default(entry.title)),
     summary |-> sub_tags(strip(unescape(getattr_default(entry.summary)))),
     link |-> getattr_default(entry.link),
     authors |-> authors_joined(entry),
     published |-> getattr_default(entry.published),
     id |-> getattr_default(entry.id)]

\* requests.get or raise_for_status raises
GetRaises(out) == out.kind \in {"neterr", "timeout", "status"}

\* papers built from feed.entries; max_results only goes into the URL
papers_of(max_results, entries) == [k \in 1..Len(entries) |-> paper_of(entries[k])]

\* raised: an exception leaves search_arxiv; papers: the list returned
search_arxiv(max_results, out) ==
    IF GetRaises(out) THEN [raised |-> FALSE, papers |-> <<>>]
    ELSE IF \E k \in 1..Len(out.entries) : AuthorNameRaises(out.entries[k])
         THEN [raised |-> TRUE, papers |-> <<>>]
         ELSE [raised |-> FALSE, papers |-> papers_of(max_results, out.entries)]

----------------------------------------------------------------------------
(* Inputs of search_arxiv *)

Named(n) == [hasName |-> TRUE, name |-> n]
Nameless == [hasName |-> FALSE, name |-> <<>>]

EntryFull ==
    [title |-> Str(<<" ", "T">>),
     summary |-> Str(<<" ", "<", "b", ">", "a", ".", "<", "/", "b", ">">>),
     link |-> Str(<<"L">>),
     authors |-> [present |-> TRUE, items |-> <<Named(<<"N">>), Named(<<"M">>)>>],
     published |-> Str(<<"P">>),
     id |-> Str(<<"I">>)]

EntryBare ==
    [title |-> Absent, summary |-> Absent, link |-> Absent,
     authors |-> [present |-> FALSE, items |-> <<>>],
     published |-> Absent, id |-> Absent]

EntryPartial ==
    [title |-> Str(<<"U">>),
     summary |-> Str(<<"&lt;", "a", "&gt;", "<", ">", " ">>),
     link |-> Absent,
     authors |-> [present |-> TRUE, items |-> <<Named(<<"N">>)>>],
     published |-> Str(<<"Q">>),
     id |-> Absent]

EntryNameless ==
    [title |-> Str(<<"V">>),
     summary |-> Str(<<"a", ".">>),
     link |-> Str(<<"K">>),
     authors |-> [present |-> TRUE, items |-> <<Named(<<"N">>), Nameless>>],
     published |-> Absent,
     id |-> Str(<<"J">>)]

SampleEntries == {EntryFull, EntryBare, EntryPartial, EntryNameless}

Feeds == UNION {[1..k -> SampleEntries] : k \in 0..MaxFeed}

NoFetch == [kind |-> "none", entries |-> <<>>]

FetchOutcomes ==
    {[NoFetch EXCEPT !.kind = k] : k \in {"neterr", "timeout", "status"}}
    \cup {[NoFetch EXCEPT !.kind = "ok", !.entries = f] : f \in Feeds}

----------------------------------------------------------------------------
(* One call of search_arxiv *)

InitFetch ==
    /\ fPc = "call"
    /\ fCap \in 1..MaxCap
    /\ fOutcome = NoFetch
    /\ fPapers = <<>>
    /\ sPc = "idle" /\ sKey = FALSE /\ sText = <<>> /\ sOutcome = NoRequest
    /\ sPath = "none" /\ sResult = <<>>
    /\ pc = "idle" /\ clock = 0 /\ key = FALSE /\ papers = <<>> /\ idx = 0
    /\ today = 0 /\ lines = <<>> /\ digest = <<>> /\ filename = <<>>
    /\ file = <<>> /\ writes = 0 /\ ops = <<>>

SearchArxiv ==
    /\ fPc = "call"
    /\ \E out \in FetchOutcomes :
        LET r == search_arxiv(fCap, out)
        IN /\ fOutcome' = out
           /\ fPapers' = r.papers
           /\ fPc' = IF r.raised THEN "raised" ELSE "ret"
    /\ UNCHANGED fCap
    /\ UNCHANGED sumVars
    /\ UNCHANGED mainVars

NextFetch == SearchArxiv

SpecFetch == InitFetch /\ [][NextFetch]_vars

----------------------------------------------------------------------------
(* Inputs of summarize_text *)

Alphabet == {"a", ".", " ", "\\", "s"}

SampleTexts == {
    <<"A", ".", " ", "B", ".", " ", "C", ".", " ", "D", ".">>,
    <<".", " ", ".", " ", ".", " ", ".">>,
    <<".", " ", " ", "a">>,
    <<"a", ".", "\\", "s", "b", ".", "\\", "s", "s", "c", ".", "\\", "s", "d", ".", "\\", "s", "e">>,
    <<" ", "a", ".", "\\", "s", "b", " ">>
}

Texts == UNION {[1..k -> Alphabet] : k \in 0..MaxLen} \cup SampleTexts

----------------------------------------------------------------------------
(* One call of summarize_text *)

InitSum ==
    /\ sPc = "call"
    /\ sKey \in BOOLEAN
    /\ sText \in Texts
    /\ sOutcome = NoRequest
    /\ sPath = "none"
    /\ sResult = <<>>
    /\ fPc = "idle" /\ fCap = 0 /\ fOutcome = NoFetch /\ fPapers = <<>>
    /\ pc = "idle" /\ clock = 0 /\ key = FALSE /\ papers = <<>> /\ idx = 0
    /\ today = 0 /\ lines = <<>> /\ digest = <<>> /\ filename = <<>>
    /\ file = <<>> /\ writes = 0 /\ ops = <<>>

\* OPENROUTER_KEY unset: no request is made
SummarizeNoKey ==
    /\ sPc = "call"
    /\ ~sKey
    /\ LET r == summarize_text(sKey, sText, NoRequest)
       IN /\ sPath' = r.path
          /\ sResult' = r.result
    /\ sPc' = "ret"
    /\ UNCHANGED <<sKey, sText, sOutcome>>
    /\ UNCHANGED fetchVars
    /\ UNCHANGED mainVars

\* OPENROUTER_KEY set: one POST, whose outcome the server decides
SummarizeRequest ==
    /\ sPc = "call"
    /\ sKey
    /\ \E out \in Outcomes :
        LET r == summarize_text(sKey, sText, out)
        IN /\ sOutcome' = out
           /\ sPath' = r.path
           /\ sResult' = r.result
    /\ sPc' = "ret"
    /\ UNCHANGED <<sKey, sText>>
    /\ UNCHANGED fetchVars
    /\ UNCHANGED mainVars

NextSum == SummarizeNoKey \/ SummarizeRequest

SpecSum == InitSum /\ [][NextSum]_vars

----------------------------------------------------------------------------
(* generate_digest and main *)

TOPIC == <<"m", "i", "c", "r", "o", "w", "a", "v", "e", " ", "p", "l", "a", "s", "m", "a", " ", "C", "V", "D", " ", "d", "i", "a", "m", "o", "n", "d", " ", "g", "r", "o", "w", "t", "h">>

MAX_RESULTS == 10

OUTPUT_DIR == <<"d", "i", "g", "e", "s", "t", "s">>

Digits == <<"0", "1", "2", "3", "4", "5", "6", "7", "8", "9">>

\* str(n) for n >= 0
RECURSIVE itoa(_)
itoa(n) == IF n < 10 THEN <<Digits[n + 1]>> ELSE itoa(n \div 10) \o <<Digits[(n % 10) + 1]>>

\* date.isoformat() and str(date): distinct days give distinct texts
isoformat(d) == <<"D">> \o itoa(d)

\* f"# Weekly Digest: {TOPIC} ({today})\n"
title_line(d) == <<"#", " ", "W", "e", "e", "k", "l", "y", " ", "D", "i", "g", "e", "s", "t", ":", " ">> \o TOPIC \o <<" ", "(">> \o isoformat(d) \o <<")", "\n">>

\* enumerate(papers) without the start argument
ordinal_from_zero(k) == k - 1

\* the number enumerate(papers, 1) gives to the paper at position k
ordinal(k) == k

\* the four lines appended for paper number i
section(i, paper, summary) ==
    <<<<"#", "#", "#", " ">> \o itoa(i) \o <<".", " ">> \o paper.title,
      <<"*", "*", "A", "u", "t", "h", "o", "r", "s", ":", "*", "*", " ">> \o paper.authors,
      <<"*", "*", "S", "u", "m", "m", "a", "r", "y", ":", "*", "*", " ">> \o summary,
      <<"[", "R", "e", "a", "d", " ", "o", "n", " ", "a", "r", "X", "i", "v", "]", "(">> \o paper.link \o <<")", "\n">>>>

\* f"{OUTPUT_DIR}/digest_{date.today()}.md"
file_name(d) == OUTPUT_DIR \o <<"/", "d", "i", "g", "e", "s", "t", "_">> \o isoformat(d) \o <<".", "m", "d">>

Op(name, n) == [op |-> name, arg |-> n]

\* completion outcomes tried in a run of main
MainOutcomes ==
    {[NoRequest EXCEPT !.kind = "timeout"],
     [NoRequest EXCEPT !.kind = "json", !.choices = "empty"]}
    \cup {[NoRequest EXCEPT !.kind = "json", !.choices = "list",
             !.choice = [NoChoice EXCEPT !.t = "dict", !.message = "dict", !.content = Str(c)]] :
            c \in {<<"X">>, <<" ">>}}

Init ==
    /\ pc = "start"
    /\ clock = 0
    /\ key \in BOOLEAN
    /\ papers = <<>>
    /\ idx = 0
    /\ today = 0
    /\ lines = <<>>
    /\ digest = <<>>
    /\ filename = <<>>
    /\ file = <<>>
    /\ writes = 0
    /\ ops = <<>>
    /\ fPc = "idle" /\ fCap = 0 /\ fOutcome = NoFetch /\ fPapers = <<>>
    /\ sPc = "idle" /\ sKey = FALSE /\ sText = <<>> /\ sOutcome = NoRequest
    /\ sPath = "none" /\ sResult = <<>>

\* os.makedirs(OUTPUT_DIR, exist_ok=True)
MakeDirs ==
    /\ pc = "start"
    /\ ops' = Append(ops, Op("makedirs", 0))
    /\ pc' = "fetch"
    /\ UNCHANGED <<clock, key, papers, idx, today, lines, digest, filename, file, writes>>
    /\ UNCHANGED <<fetchVars, sumVars>>

\* papers = search_arxiv(TOPIC, MAX_RESULTS); an exception ends the run
Fetch ==
    /\ pc = "fetch"
    /\ \E out \in FetchOutcomes :
        LET r == search_arxiv(MAX_RESULTS, out)
        IN /\ papers' = r.papers
           /\ pc' = IF r.raised THEN "raised" ELSE "digest"
    /\ ops' = Append(ops, Op("GET", 0))
    /\ UNCHANGED <<clock, key, idx, today, lines, digest, filename, file, writes>>
    /\ UNCHANGED <<fetchVars, sumVars>>

\* generate_digest: today = date.today().isoformat(); lines = [title]
DigestBegin ==
    /\ pc = "digest"
    /\ today' = clock
    /\ lines' = <<title_line(clock)>>
    /\ idx' = 1
    /\ pc' = "loop"
    /\ UNCHANGED <<clock, key, papers, digest, filename, file, writes, ops>>
    /\ UNCHANGED <<fetchVars, sumVars>>

\* one iteration of the loop: summarize_text(paper["summary"]), four appends
SummarizePaper ==
    /\ pc = "loop"
    /\ idx <= Len(papers)
    /\ \E out \in (IF key THEN MainOutcomes ELSE {NoRequest}) :
        LET r == summarize_text(key, papers[idx].summary, out)
        IN lines' = lines \o section(ordinal(idx), papers[idx], r.result)
    /\ ops' = IF key THEN Append(ops, Op("POST", idx)) ELSE ops
    /\ idx' = idx + 1
    /\ UNCHANGED <<pc, clock, key, papers, today, digest, filename, file, writes>>
    /\ UNCHANGED <<fetchVars, sumVars>>

\* return "\n".join(lines)
DigestEnd ==
    /\ pc = "loop"
    /\ idx > Len(papers)
    /\ digest' = join(<<"\n">>, lines)
    /\ pc' = "write"
    /\ UNCHANGED <<clock, key, papers, idx, today, lines, filename, file, writes, ops>>
    /\ UNCHANGED <<fetchVars, sumVars>>

\* filename from date.today(); open, write, close; print
WriteFile ==
    /\ pc = "write"
    /\ filename' = file_name(clock)
    /\ file' = digest
    /\ writes' = writes + 1
    /\ ops' = Append(ops, Op("write", 0))
    /\ pc' = "done"
    /\ UNCHANGED <<clock, key, papers, idx, today, lines, digest>>
    /\ UNCHANGED <<fetchVars, sumVars>>

\* midnight passes while the run is in progress
Tick ==
    /\ pc \in {"start", "fetch", "digest", "loop", "write"}
    /\ clock < MaxDay
    /\ clock' = clock + 1
    /\ UNCHANGED <<pc, key, papers, idx, today, lines, digest, filename, file, writes, ops>>
    /\ UNCHANGED <<fetchVars, sumVars>>

Next ==
    \/ MakeDirs
    \/ Fetch
    \/ DigestBegin
    \/ SummarizePaper
    \/ DigestEnd
    \/ WriteFile
    \/ Tick

Spec == Init /\ [][Next]_vars

----------------------------------------------------------------------------
(* Properties of summarize_text, checked under SpecSum *)

\* the split the documentation describes: whitespace that follows . ! or ?
RECURSIVE RunOfSpace(_, _)
RunOfSpace(s, j) == IF j <= Len(s) /\ IsSpace(s[j]) THEN 1 + RunOfSpace(s, j + 1) ELSE 0

SentenceMatchLen(s, i) ==
    IF i > 1 /\ s[i - 1] \in Punct THEN RunOfSpace(s, i) ELSE 0

RECURSIVE SentenceSplitFrom(_, _, _)
SentenceSplitFrom(s, i, start) ==
    IF i > Len(s) THEN <<SubSeq(s, start, Len(s))>>
    ELSE LET m == SentenceMatchLen(s, i) IN
         IF m > 0 THEN <<SubSeq(s, start, i - 1)>> \o SentenceSplitFrom(s, i + m, i + m)
         ELSE SentenceSplitFrom(s, i + 1, start)

SentenceSegments(s) == SentenceSplitFrom(s, 1, 1)

\* C1: without a credential summarize_text returns the first three sentence
\* segments of text (split at whitespace after . ! ?) joined by single spaces,
\* so "A. B. C. D." gives "A. B. C.".
C1_FirstThreeSentences ==
    (sPc = "ret" /\ ~sKey) =>
        sResult = strip(join(<<" ">>, Take(SentenceSegments(sText), 3)))

\* C2: for every non-empty text summarize_text returns a non-empty string, on
\* every path (no credential, failed request, successful response).
C2_NonEmptyResult ==
    (sPc = "ret" /\ sText # <<>>) => sResult # <<>>

\* C3: with a credential and a failed request or an exception while reading
\* the response, the result is the result of summarize_text on the same text
\* without a credential.
C3_FailureEqualsNoKey ==
    (sPc = "ret" /\ sKey /\ (RequestRaises(sOutcome) \/ ParseRaises(sOutcome))) =>
        /\ sPath = "except"
        /\ sResult = summarize_text(FALSE, sText, NoRequest).result

C3_Witness ==
    /\ sPc = "ret"
    /\ sKey
    /\ sOutcome.kind = "timeout"
    /\ Len(re_split(sText)) > 3
    /\ sResult = <<"a", ".", " ", "b", ".", " ", "c", ".">>

HasFirstChoice(out) == out.kind = "json" /\ out.data = "dict" /\ out.choices = "list"

\* message.content of a choice that is an object, Absent when there is none
ClaimedContent(ch) == IF ch.message = "dict" THEN ch.content ELSE Absent

\* the value the three cases of the claim choose
ClaimedChoice(ch) ==
    IF ch.t # "dict" THEN Str(PyStr(ch))
    ELSE IF Truthy(ClaimedContent(ch)) THEN ClaimedContent(ch)
    ELSE IF Truthy(ch.text) THEN ch.text
    ELSE Str(PyStr(ch))

\* C7 as stated: with a credential and a successful JSON response the result
\* is message.content when present and non-empty, else the text field when
\* present and non-empty, else the stringified first choice, and the
\* extractive fallback is not used.
C7_ReturnsChosenField ==
    (sPc = "ret" /\ sKey /\ HasFirstChoice(sOutcome)) =>
        /\ sPath = "ok"
        /\ sResult = ClaimedChoice(sOutcome.choice).v

\* C7 amended: the chosen value is returned with leading and trailing
\* whitespace removed when it is a string and message is absent, null or an
\* object; when the chosen value is not a string, or message is a non-empty
\* value that is not an object, the extractive fallback of the text is
\* returned.
C7_ReturnsStrippedChoice ==
    (sPc = "ret" /\ sKey /\ HasFirstChoice(sOutcome)) =>
        LET ch == sOutcome.choice
            chosen == ClaimedChoice(ch)
        IN IF (ch.t = "dict" => ch.message \in {"absent", "null", "dict"})
              /\ chosen.t = "str"
           THEN sPath = "ok" /\ sResult = strip(chosen.v)
           ELSE /\ sPath = "except"
                /\ sResult = summarize_text(FALSE, sText, NoRequest).result

C7_Witness ==
    /\ sPc = "ret"
    /\ sKey
    /\ HasFirstChoice(sOutcome)
    /\ sOutcome.choice.t = "dict"
    /\ sOutcome.choice.message = "dict"
    /\ sOutcome.choice.content = Str(<<" ", "X", " ">>)
    /\ sOutcome.choice.text = Str(<<" ">>)
    /\ sPath = "ok"
    /\ sResult = <<"X">>

----------------------------------------------------------------------------
(* Properties of search_arxiv, checked under SpecFetch *)

\* C4: search_arxiv never lets an error reach its caller, whatever the
\* request outcome and the feed contents (author items without a name
\* included), and returns the empty list when the request fails.
C4_NoErrorReachesCaller ==
    /\ fPc # "raised"
    /\ (fPc = "ret" /\ GetRaises(fOutcome)) => fPapers = <<>>

PaperKeys == {"title", "summary", "link", "authors", "published", "id"}

\* C5: on a successful request search_arxiv returns exactly
\* min(entries in the feed, max_results) records in feed order, each with the
\* six keys and a missing field set to the empty string; the list is never
\* longer than max_results.
C5_CappedRecords ==
    (fPc = "ret" /\ fOutcome.kind = "ok") =>
        /\ Len(fPapers) = Min(Len(fOutcome.entries), fCap)
        /\ \A k \in 1..Len(fPapers) :
            /\ DOMAIN fPapers[k] = PaperKeys
            /\ fPapers[k].link = getattr_default(fOutcome.entries[k].link)
            /\ fPapers[k].id = getattr_default(fOutcome.entries[k].id)
            /\ fPapers[k].published = getattr_default(fOutcome.entries[k].published)
            /\ fOutcome.entries[k].title = Absent => fPapers[k].title = <<>>
            /\ fOutcome.entries[k].summary = Absent => fPapers[k].summary = <<>>
            /\ ~fOutcome.entries[k].authors.present => fPapers[k].authors = <<>>

----------------------------------------------------------------------------
(* Properties of generate_digest and main, checked under Spec *)

\* C6: the digest of n papers is the title line followed by exactly n
\* numbered sections; section i carries ordinal i and the title, authors and
\* link of input paper i, in input order; for n = 0 it is the title line only.
C6_DigestSections ==
    (pc \in {"write", "done"}) =>
        /\ Len(lines) = 1 + 4 * Len(papers)
        /\ lines[1] = <<"#", " ", "W", "e", "e", "k", "l", "y", " ", "D", "i", "g", "e", "s", "t", ":", " ">> \o TOPIC \o <<" ", "(">> \o isoformat(today) \o <<")", "\n">>
        /\ \A k \in 1..Len(papers) :
            /\ lines[4 * k - 2] = <<"#", "#", "#", " ">> \o itoa(k) \o <<".", " ">> \o papers[k].title
            /\ lines[4 * k - 1] = <<"*", "*", "A", "u", "t", "h", "o", "r", "s", ":", "*", "*", " ">> \o papers[k].authors
            /\ SubSeq(lines[4 * k], 1, 13) = <<"*", "*", "S", "u", "m", "m", "a", "r", "y", ":", "*", "*", " ">>
            /\ lines[4 * k + 1] = <<"[", "R", "e", "a", "d", " ", "o", "n", " ", "a", "r", "X", "i", "v", "]", "(">> \o papers[k].link \o <<")", "\n">>
        /\ digest = join(<<"\n">>, lines)
        /\ (papers = <<>> => digest = lines[1])

C6_Witness ==
    /\ pc = "done"
    /\ Len(papers) = 3
    /\ papers[1] # papers[2]
    /\ papers[2] # papers[3]
    /\ Len(lines) = 13

Terminal == {"done", "raised"}

\* C8: every run of main completes and writes the digest file exactly once;
\* when the fetch fails or returns no paper the file holds the title line only.
C8_RunCompletesAndWritesOnce ==
    (pc \in Terminal) =>
        /\ pc = "done"
        /\ writes = 1
        /\ (papers = <<>> => file = title_line(today))

\* the POST requests of a complete run: one per paper in order with a
\* credential, none without
RECURSIVE ExpectedPosts(_, _)
ExpectedPosts(n, k) ==
    IF k > n THEN <<>> ELSE <<Op("POST", k)>> \o ExpectedPosts(n, k + 1)

\* C9: in every run the external operations are, in this order and without
\* repetition: makedirs, one GET, one POST per paper in feed order when a
\* credential is configured (none otherwise), then one file write.
C9_OperationOrder ==
    (pc \in Terminal) =>
        ops = <<Op("makedirs", 0), Op("GET", 0)>>
              \o (IF key THEN ExpectedPosts(Len(papers), 1) ELSE <<>>)
              \o <<Op("write", 0)>>

\* C10: the date in the digest title line equals the date in the file name.
C10_SameDate ==
    (pc = "done") =>
        /\ lines[1] = title_line(today)
        /\ filename = file_name(today)

====
